---------------------------- MODULE Spec2Model ----------------------------
(***************************************************************************)
(* A model of src/v1/hash.go: the Hash value type (algorithm, hex), its    *)
(* parser (NewHash / parse), its renderings (String, MarshalJSON), its     *)
(* JSON reader (UnmarshalJSON) and the streaming digest SHA256.            *)
(*                                                                         *)
(* A Go string is a sequence of bytes, so every string of the model is a   *)
(* sequence of integers in 0..255; characters are UTF-8 encoded.           *)
(*                                                                         *)
(* Where a value is used more than once it is named by a bound variable    *)
(* over a one-element set, "CHOOSE y \in {F(v) : v \in {e}} : TRUE" or      *)
(* "\E v \in {e} : A(v)": F(e) and A(e), with e computed once.              *)
(***************************************************************************)
EXTENDS Integers, Sequences, FiniteSets, TLC

(***************************************************************************)
(* Bytes and string literals.                                              *)
(***************************************************************************)

\* The printable ASCII characters from code 32 on, without the backquote
\* (code 96), which a literal of this language cannot hold.
AsciiTable ==
    << " ", "!", "\"", "#", "$", "%", "&", "'", "(", ")", "*", "+", ",", "-", ".", "/",
       "0", "1", "2", "3", "4", "5", "6", "7", "8", "9", ":", ";", "<", "=", ">", "?",
       "@", "A", "B", "C", "D", "E", "F", "G", "H", "I", "J", "K", "L", "M", "N", "O",
       "P", "Q", "R", "S", "T", "U", "V", "W", "X", "Y", "Z", "[", "\\", "]", "^", "_",
       "a", "b", "c", "d", "e", "f", "g", "h", "i", "j", "k", "l", "m", "n", "o",
       "p", "q", "r", "s", "t", "u", "v", "w", "x", "y", "z", "{", "|", "}", "~" >>

\* The byte of a printable ASCII character.
Ord(c) ==
    LET i == CHOOSE k \in DOMAIN AsciiTable : AsciiTable[k] = c
    IN  IF i <= 64 THEN 31 + i ELSE 32 + i

\* The Go string whose characters are cs (a tuple of one-character strings).
Str(cs) == [i \in DOMAIN cs |-> Ord(cs[i])]

\* The string of n copies of byte b.
Repeat(b, n) == [i \in 1..n |-> b]

\* s[from:] and s[:to] of Go, 0-based, on a 1-based sequence.
Drop(s, k) == SubSeq(s, k + 1, Len(s))
Take(s, k) == SubSeq(s, 1, k)

\* strings.IndexByte: the 0-based index of the first b in s, or -1.
IndexByte(s, b) ==
    IF \E i \in DOMAIN s : s[i] = b
    THEN (CHOOSE i \in DOMAIN s : s[i] = b /\ \A j \in 1..(i - 1) : s[j] # b) - 1
    ELSE -1

Contains(s, b) == \E i \in DOMAIN s : s[i] = b

\* The length of the longest prefix of s whose bytes are all in ok.
PrefixLen(s, ok) ==
    IF \A i \in DOMAIN s : s[i] \in ok THEN Len(s)
    ELSE (CHOOSE i \in DOMAIN s : s[i] \notin ok /\ \A j \in 1..(i - 1) : s[j] \in ok) - 1

(***************************************************************************)
(* The Hash type.                                                          *)
(***************************************************************************)

\* type Hash struct { algorithm string; hex string }
Hash(a, x) == [algorithm |-> a, hex |-> x]

\* Hash{}: the zero value.
ZeroHash == Hash(<<>>, <<>>)

Algorithm(h) == h.algorithm

Hex(h) == h.hex

\* String with the separator left out.
StringNoColon(h) == Algorithm(h) \o Hex(h)

\* fmt.Sprintf("%s:%s", h.Algorithm(), h.Hex())
String(h) == Algorithm(h) \o Str(<<":">>) \o Hex(h)

(***************************************************************************)
(* Errors: fmt.Errorf(format, arg) is the pair of its format and the text  *)
(* the verb is replaced by; nil is NoError.                                *)
(***************************************************************************)
NoError == [format |-> "", arg |-> <<>>]

Errorf(format, arg) == [format |-> format, arg |-> arg]

(***************************************************************************)
(* unicode/utf8, as the standard library defines it.                       *)
(***************************************************************************)
RuneError == 65533

MaxRune == 1114111

\* utf8.ValidRune
ValidRune(r) == (0 <= r /\ r < 55296) \/ (57343 < r /\ r <= MaxRune)

\* utf8.AppendRune: the UTF-8 encoding of rune r (of RuneError when r is no
\* valid rune).
EncodeRune(r) ==
    LET v == IF ValidRune(r) THEN r ELSE RuneError
    IN  IF v < 128 THEN <<v>>
        ELSE IF v < 2048 THEN <<192 + (v \div 64), 128 + (v % 64)>>
        ELSE IF v < 65536
        THEN <<224 + (v \div 4096), 128 + ((v \div 64) % 64), 128 + (v % 64)>>
        ELSE <<240 + (v \div 262144), 128 + ((v \div 4096) % 64),
               128 + ((v \div 64) % 64), 128 + (v % 64)>>

IsCont(b) == 128 <= b /\ b <= 191

\* utf8.DecodeRuneInString: the first rune of s and its width in bytes;
\* (RuneError, 0) for the empty string and (RuneError, 1) for a byte that
\* starts no valid encoding.
DecodeRune(s) ==
    LET n    == Len(s)
        bad  == [r |-> RuneError, size |-> 1]
        b(i) == s[i]
    IN  IF n = 0 THEN [r |-> RuneError, size |-> 0]
        ELSE IF b(1) < 128 THEN [r |-> b(1), size |-> 1]
        ELSE IF 194 <= b(1) /\ b(1) <= 223
        THEN IF n >= 2 /\ IsCont(b(2))
             THEN [r |-> (b(1) - 192) * 64 + (b(2) - 128), size |-> 2]
             ELSE bad
        ELSE IF 224 <= b(1) /\ b(1) <= 239
        THEN IF /\ n >= 3
                /\ IsCont(b(2)) /\ IsCont(b(3))
                /\ (b(1) = 224 => b(2) >= 160)
                /\ (b(1) = 237 => b(2) <= 159)
             THEN [r |-> (b(1) - 224) * 4096 + (b(2) - 128) * 64 + (b(3) - 128),
                   size |-> 3]
             ELSE bad
        ELSE IF 240 <= b(1) /\ b(1) <= 244
        THEN IF /\ n >= 4
                /\ IsCont(b(2)) /\ IsCont(b(3)) /\ IsCont(b(4))
                /\ (b(1) = 240 => b(2) >= 144)
                /\ (b(1) = 244 => b(2) <= 143)
             THEN [r |-> (b(1) - 240) * 262144 + (b(2) - 128) * 4096
                         + (b(3) - 128) * 64 + (b(4) - 128),
                   size |-> 4]
             ELSE bad
        ELSE bad

\* utf8.ValidString: the bytes below 0x80 are passed over in runs, and
\* each other byte must start a valid encoding.
RECURSIVE ValidString(_)
ValidString(s) ==
    LET ascii == 0 .. 127
    IN  \A k \in {PrefixLen(s, ascii)} :
          \/ k = Len(s)
          \/ \A d \in {DecodeRune(Drop(s, k))} :
               /\ ~(d.r = RuneError /\ d.size = 1)
               /\ ValidString(Drop(s, k + d.size))

\* The verb %c of fmt applied to the byte c: the encoding of the rune whose
\* code point is the value of the byte.
FmtC(c) == EncodeRune(c)

(***************************************************************************)
(* parse.                                                                  *)
(***************************************************************************)

\* strings.Split(s, ":"): the parts of s between the colons.
RECURSIVE Split(_)
Split(s) ==
    LET i == IndexByte(s, Ord(":"))
    IN  IF i < 0 THEN <<s>>
        ELSE <<Take(s, i)>> \o Split(Drop(s, i + 1))

\* The cutset "0123456789abcdef".
HexCutset == {Ord(c) : c \in {"0", "1", "2", "3", "4", "5", "6", "7", "8", "9",
                               "a", "b", "c", "d", "e", "f"}}

\* strings.TrimLeft(s, cutset) for an ASCII cutset: s without its longest
\* prefix of bytes of the cutset.
TrimLeft(s, cutset) ==
    Drop(s, PrefixLen(s, cutset))

\* len(parts[1]) required of a sha256 digest.
Sha256HexLen == 64

\* parse without the check of lines 77-80 (the characters of the hex part).
parseNoHexCheck(h, unquoted) ==
    CHOOSE res \in
      { IF Len(parts) # 2
        THEN [h |-> h, err |-> Errorf("too many parts in hash: %s", unquoted)]
        ELSE IF parts[1] = Str(<<"s", "h", "a", "2", "5", "6">>)
        THEN IF Len(parts[2]) # Sha256HexLen
             THEN [h |-> h,
                   err |-> Errorf("wrong number of hex digits for sha256: %s",
                                  parts[2])]
             ELSE [h |-> Hash(parts[1], parts[2]), err |-> NoError]
        ELSE [h |-> h, err |-> Errorf("unsupported hash type: %s", parts[1])] :
        parts \in {Split(unquoted)} } : TRUE

\* parse without the check of lines 84-86 (the length of the hex part).
parseNoLengthCheck(h, unquoted) ==
    CHOOSE res \in
      { IF Len(parts) # 2
        THEN [h |-> h, err |-> Errorf("too many parts in hash: %s", unquoted)]
        ELSE CHOOSE res2 \in
          { IF Len(rest) # 0
            THEN [h |-> h, err |-> Errorf("found non-hex character in hash: %c",
                                          FmtC(rest[1]))]
            ELSE IF parts[1] = Str(<<"s", "h", "a", "2", "5", "6">>)
            THEN [h |-> Hash(parts[1], parts[2]), err |-> NoError]
            ELSE [h |-> h, err |-> Errorf("unsupported hash type: %s", parts[1])] :
            rest \in {TrimLeft(parts[2], HexCutset)} } : TRUE :
        parts \in {Split(unquoted)} } : TRUE

\* parse with the switch on the algorithm (lines 82-90) moved before the
\* check of the characters (lines 77-80).
parseAlgorithmFirst(h, unquoted) ==
    CHOOSE res \in
      { IF Len(parts) # 2
        THEN [h |-> h, err |-> Errorf("too many parts in hash: %s", unquoted)]
        ELSE IF parts[1] # Str(<<"s", "h", "a", "2", "5", "6">>)
        THEN [h |-> h, err |-> Errorf("unsupported hash type: %s", parts[1])]
        ELSE IF Len(parts[2]) # Sha256HexLen
        THEN [h |-> h,
              err |-> Errorf("wrong number of hex digits for sha256: %s", parts[2])]
        ELSE CHOOSE res2 \in
          { IF Len(rest) # 0
            THEN [h |-> h, err |-> Errorf("found non-hex character in hash: %c",
                                          FmtC(rest[1]))]
            ELSE [h |-> Hash(parts[1], parts[2]), err |-> NoError] :
            rest \in {TrimLeft(parts[2], HexCutset)} } : TRUE :
        parts \in {Split(unquoted)} } : TRUE

\* parse with the assignment of h.algorithm (line 91) moved before the
\* checks, right after the split.
parseAssignFirst(h, unquoted) ==
    CHOOSE res \in
      { IF Len(parts) # 2
        THEN [h |-> h, err |-> Errorf("too many parts in hash: %s", unquoted)]
        ELSE CHOOSE res2 \in
          { IF Len(rest) # 0
            THEN [h |-> Hash(parts[1], h.hex),
                  err |-> Errorf("found non-hex character in hash: %c", FmtC(rest[1]))]
            ELSE IF parts[1] = Str(<<"s", "h", "a", "2", "5", "6">>)
            THEN IF Len(parts[2]) # Sha256HexLen
                 THEN [h |-> Hash(parts[1], h.hex),
                       err |-> Errorf("wrong number of hex digits for sha256: %s",
                                      parts[2])]
                 ELSE [h |-> Hash(parts[1], parts[2]), err |-> NoError]
            ELSE [h |-> Hash(parts[1], h.hex),
                  err |-> Errorf("unsupported hash type: %s", parts[1])] :
            rest \in {TrimLeft(parts[2], HexCutset)} } : TRUE :
        parts \in {Split(unquoted)} } : TRUE

\* func (h *Hash) parse(unquoted string) error: the receiver after the call
\* and the error returned.
parse(h, unquoted) ==
    CHOOSE res \in
      { IF Len(parts) # 2
        THEN [h |-> h, err |-> Errorf("too many parts in hash: %s", unquoted)]
        ELSE CHOOSE res2 \in
          { IF Len(rest) # 0
            THEN [h |-> h, err |-> Errorf("found non-hex character in hash: %c",
                                          FmtC(rest[1]))]
            ELSE IF parts[1] = Str(<<"s", "h", "a", "2", "5", "6">>)
            THEN IF Len(parts[2]) # Sha256HexLen
                 THEN [h |-> h,
                       err |-> Errorf("wrong number of hex digits for sha256: %s",
                                      parts[2])]
                 ELSE [h |-> Hash(parts[1], parts[2]), err |-> NoError]
            ELSE [h |-> h, err |-> Errorf("unsupported hash type: %s", parts[1])] :
            rest \in {TrimLeft(parts[2], HexCutset)} } : TRUE :
        parts \in {Split(unquoted)} } : TRUE

\* func NewHash(s string) (Hash, error)
NewHashOf(s) ==
    CHOOSE res \in
      { IF p.err # NoError THEN [hash |-> ZeroHash, err |-> p.err]
        ELSE [hash |-> p.h, err |-> NoError] :
        p \in {parse(ZeroHash, s)} } : TRUE

(***************************************************************************)
(* strconv.Unquote, as the standard library defines it (Go 1.17 and        *)
(* later): the reading of a Go string literal, double-quoted, back-quoted  *)
(* or single-quoted.                                                       *)
(***************************************************************************)
ErrSyntax == Errorf("invalid syntax", <<>>)

DoubleQuote == Ord("\"")

SingleQuote == Ord("'")

Backslash == Ord("\\")

Backquote == 96

Newline == 10

CarriageReturn == 13

\* unhex: the value of a hexadecimal digit, -1 for any other byte.
Unhex(c) ==
    IF Ord("0") <= c /\ c <= Ord("9") THEN c - Ord("0")
    ELSE IF Ord("a") <= c /\ c <= Ord("f") THEN c - Ord("a") + 10
    ELSE IF Ord("A") <= c /\ c <= Ord("F") THEN c - Ord("A") + 10
    ELSE -1

\* The value of the hexadecimal digits ds read left to right, -1 when one
\* of them is no hexadecimal digit.
RECURSIVE HexValue(_, _)
HexValue(ds, acc) ==
    IF ds = <<>> THEN acc
    ELSE IF Unhex(ds[1]) < 0 THEN -1
    ELSE HexValue(Tail(ds), acc * 16 + Unhex(ds[1]))

\* The value of the octal digits ds read left to right, -1 when one of them
\* is no octal digit.
RECURSIVE OctalValue(_, _)
OctalValue(ds, acc) ==
    IF ds = <<>> THEN acc
    ELSE IF ds[1] < Ord("0") \/ ds[1] > Ord("7") THEN -1
    ELSE OctalValue(Tail(ds), acc * 8 + (ds[1] - Ord("0")))

\* The control characters the one-letter escapes stand for.
SimpleEscape ==
    (Ord("a") :> 7) @@ (Ord("b") :> 8) @@ (Ord("f") :> 12) @@ (Ord("n") :> 10)
    @@ (Ord("r") :> 13) @@ (Ord("t") :> 9) @@ (Ord("v") :> 11)

\* strconv.UnquoteChar(s, quote): the first character or escape sequence of
\* s: its value, whether it is a multibyte rune, and the rest of s.
UnquoteChar(s, quote) ==
    LET bad == [value |-> 0, multibyte |-> FALSE, tail |-> <<>>, err |-> ErrSyntax]
        ok(v, m, t) == [value |-> v, multibyte |-> m, tail |-> t, err |-> NoError]
        c == s[2]
        t == Drop(s, 2)
        n == IF c = Ord("x") THEN 2 ELSE IF c = Ord("u") THEN 4 ELSE 8
        v == HexValue(Take(t, n), 0)
        o == OctalValue(<<c>> \o Take(t, 2), 0)
    IN  IF Len(s) = 0 THEN bad
        ELSE IF s[1] = quote /\ (quote = SingleQuote \/ quote = DoubleQuote) THEN bad
        ELSE IF s[1] >= 128
        THEN CHOOSE res \in {ok(d.r, TRUE, Drop(s, d.size)) : d \in {DecodeRune(s)}} : TRUE
        ELSE IF s[1] # Backslash THEN ok(s[1], FALSE, Drop(s, 1))
        ELSE IF Len(s) <= 1 THEN bad
        ELSE IF c \in DOMAIN SimpleEscape THEN ok(SimpleEscape[c], FALSE, t)
        ELSE IF c \in {Ord("x"), Ord("u"), Ord("U")}
        THEN IF Len(t) < n \/ v < 0 THEN bad
             ELSE IF c = Ord("x") THEN ok(v, FALSE, Drop(t, n))
             ELSE IF ~ValidRune(v) THEN bad
             ELSE ok(v, TRUE, Drop(t, n))
        ELSE IF Ord("0") <= c /\ c <= Ord("7")
        THEN IF Len(t) < 2 \/ o < 0 \/ o > 255 THEN bad
             ELSE ok(o, FALSE, Drop(t, 2))
        ELSE IF c = Backslash THEN ok(Backslash, FALSE, t)
        ELSE IF c = SingleQuote \/ c = DoubleQuote
        THEN IF c # quote THEN bad ELSE ok(c, FALSE, t)
        ELSE bad

\* The loop of unquote over a literal with escape sequences: in is the text
\* after the opening quote, buf the bytes read so far.  It ends at the
\* closing quote, which must be there.  In a double-quoted literal a run of
\* k ASCII bytes that are neither the quote, a backslash nor a newline is
\* read in one step: UnquoteChar yields each of them as it is.
RECURSIVE UnquoteLoop(_, _, _)
UnquoteLoop(in, quote, buf) ==
    LET plain == (0 .. 127) \ {quote, Backslash, Newline}
        failed == [out |-> <<>>, rem |-> <<>>, err |-> ErrSyntax]
        done(i, b) ==
            IF Len(i) > 0 /\ i[1] = quote
            THEN [out |-> b, rem |-> Tail(i), err |-> NoError]
            ELSE failed
        step(in1, buf1, u) ==
            IF in1[1] = Newline \/ u.err # NoError THEN failed
            ELSE CHOOSE res \in
              { IF quote = SingleQuote THEN done(u.tail, buf2)
                ELSE UnquoteLoop(u.tail, quote, buf2) :
                buf2 \in {IF u.value < 128 \/ ~u.multibyte THEN Append(buf1, u.value)
                          ELSE buf1 \o EncodeRune(u.value)} } : TRUE
    IN  CHOOSE res \in
          { IF k < Len(in) /\ in[k + 1] # quote
            THEN CHOOSE res2 \in
                   { step(Drop(in, k), buf \o Take(in, k), u) :
                     u \in {UnquoteChar(Drop(in, k), quote)} } : TRUE
            ELSE done(Drop(in, k), buf \o Take(in, k)) :
            k \in {IF quote = DoubleQuote THEN PrefixLen(in, plain) ELSE 0} } : TRUE

\* Whether the text between the quotes of a literal with no backslash and no
\* newline is a string (double-quoted) or one character (single-quoted).
ValidLiteral(quote, inner, end) ==
    IF quote = DoubleQuote THEN ValidString(inner)
    ELSE CHOOSE ok \in {1 + d.size + 1 = end /\ (d.r # RuneError \/ d.size # 1) :
                         d \in {DecodeRune(inner)}} : TRUE

\* strconv.Unquote(s): the string the literal s denotes, or ErrSyntax.
Unquote(s) ==
    LET fail == [out |-> <<>>, err |-> ErrSyntax]
    IN  IF Len(s) < 2 THEN fail
        ELSE CHOOSE res \in
          { IF end < 2 THEN fail
            ELSE IF s[1] = Backquote
            THEN IF end < Len(s) THEN fail
                 ELSE [out |-> SelectSeq(SubSeq(s, 2, end - 1),
                                         LAMBDA b : b # CarriageReturn),
                       err |-> NoError]
            ELSE IF s[1] = DoubleQuote \/ s[1] = SingleQuote
            THEN IF /\ ~Contains(Take(s, end), Backslash)
                    /\ ~Contains(Take(s, end), Newline)
                    /\ ValidLiteral(s[1], SubSeq(s, 2, end - 1), end)
                 THEN IF end < Len(s) THEN fail
                      ELSE [out |-> SubSeq(s, 2, end - 1), err |-> NoError]
                 ELSE CHOOSE res2 \in
                        { IF slow.err # NoError \/ Len(slow.rem) > 0 THEN fail
                          ELSE [out |-> slow.out, err |-> NoError] :
                          slow \in {UnquoteLoop(Tail(s), s[1], <<>>)} } : TRUE
            ELSE fail :
            end \in {IndexByte(Tail(s), s[1]) + 2} } : TRUE

(***************************************************************************)
(* encoding/json: json.Marshal of a string, as the standard library        *)
(* defines it (HTML escaping on).                                          *)
(***************************************************************************)
HexDigits == Str(<<"0", "1", "2", "3", "4", "5", "6", "7", "8", "9",
                   "a", "b", "c", "d", "e", "f">>)

\* The bytes json.Marshal writes for the first character of s, and the
\* number of bytes of s it stands for.
JsonEscape(s) ==
    LET b == s[1]
        u00 == <<Backslash, Ord("u"), Ord("0"), Ord("0")>>
    IN  IF b < 128
        THEN [size |-> 1,
              out  |-> IF b = Backslash \/ b = DoubleQuote THEN <<Backslash, b>>
                       ELSE IF b = Newline THEN <<Backslash, Ord("n")>>
                       ELSE IF b = CarriageReturn THEN <<Backslash, Ord("r")>>
                       ELSE IF b = 9 THEN <<Backslash, Ord("t")>>
                       ELSE IF b < 32 \/ b \in {Ord("<"), Ord(">"), Ord("&")}
                       THEN u00 \o <<HexDigits[(b \div 16) + 1], HexDigits[(b % 16) + 1]>>
                       ELSE <<b>>]
        ELSE CHOOSE res \in
          { IF d.r = RuneError /\ d.size = 1
            THEN [size |-> 1, out |-> Str(<<"\\", "u", "f", "f", "f", "d">>)]
            ELSE IF d.r = 8232 \/ d.r = 8233
            THEN [size |-> d.size,
                  out  |-> Str(<<"\\", "u", "2", "0", "2">>)
                           \o <<HexDigits[(d.r % 16) + 1]>>]
            ELSE [size |-> d.size, out |-> Take(s, d.size)] :
            d \in {DecodeRune(s)} } : TRUE

\* The bytes json.Marshal writes for s: a run of k bytes it writes as they
\* are, then the first byte or character of another kind, then the rest.
RECURSIVE JsonEscapeAll(_)
JsonEscapeAll(s) ==
    LET safe == (32 .. 127) \ {DoubleQuote, Backslash, Ord("<"), Ord(">"), Ord("&")}
    IN  CHOOSE res \in
          { IF k = Len(s) THEN s
            ELSE CHOOSE res2 \in
                   { Take(s, k) \o e.out \o JsonEscapeAll(Drop(s, k + e.size)) :
                     e \in {JsonEscape(Drop(s, k))} } : TRUE :
            k \in {PrefixLen(s, safe)} } : TRUE

\* json.Marshal(s) for a string s: the JSON string literal of s.
JsonMarshal(s) == <<DoubleQuote>> \o JsonEscapeAll(s) \o <<DoubleQuote>>

(***************************************************************************)
(* MarshalJSON and UnmarshalJSON.                                          *)
(***************************************************************************)

\* MarshalJSON returning the canonical text itself, with no quotes.
MarshalJSONNoQuotes(h) == [data |-> String(h), err |-> NoError]

\* func (h *Hash) MarshalJSON() ([]byte, error)
MarshalJSONOf(h) == [data |-> JsonMarshal(String(h)), err |-> NoError]

\* UnmarshalJSON clearing the receiver before it unquotes and parses.
UnmarshalJSONResets(h, data) ==
    CHOOSE res \in
      { IF u.err # NoError THEN [h |-> ZeroHash, err |-> u.err]
        ELSE parse(ZeroHash, u.out) :
        u \in {Unquote(data)} } : TRUE

\* func (h *Hash) UnmarshalJSON(data []byte) error: the receiver after the
\* call and the error returned.
UnmarshalJSONOf(h, data) ==
    CHOOSE res \in
      { IF u.err # NoError THEN [h |-> h, err |-> u.err]
        ELSE parse(h, u.out) :
        u \in {Unquote(data)} } : TRUE

(***************************************************************************)
(* crypto/sha256 and encoding/hex, as the standard library defines them    *)
(* (FIPS 180-4).  A uint32 is the pair <<hi, lo>> of its high and low 16   *)
(* bits, so that no intermediate value leaves the range of the integers of *)
(* TLC.                                                                    *)
(***************************************************************************)
HalfBits == 16

Half == 2 ^ HalfBits

\* a ^ b ^ c on the low n bits of three numbers.
RECURSIVE XorBits(_, _, _, _)
XorBits(a, b, c, n) ==
    IF n = 0 THEN 0
    ELSE ((a + b + c) % 2) + 2 * XorBits(a \div 2, b \div 2, c \div 2, n - 1)

\* (a & b) ^ (^a & c) on the low n bits.
RECURSIVE ChBits(_, _, _, _)
ChBits(a, b, c, n) ==
    IF n = 0 THEN 0
    ELSE (IF a % 2 = 1 THEN b % 2 ELSE c % 2)
         + 2 * ChBits(a \div 2, b \div 2, c \div 2, n - 1)

\* (a & b) ^ (a & c) ^ (b & c) on the low n bits.
RECURSIVE MajBits(_, _, _, _)
MajBits(a, b, c, n) ==
    IF n = 0 THEN 0
    ELSE (IF (a % 2) + (b % 2) + (c % 2) >= 2 THEN 1 ELSE 0)
         + 2 * MajBits(a \div 2, b \div 2, c \div 2, n - 1)

Xor3(x, y, z) ==
    <<XorBits(x[1], y[1], z[1], HalfBits), XorBits(x[2], y[2], z[2], HalfBits)>>

Ch(x, y, z) ==
    <<ChBits(x[1], y[1], z[1], HalfBits), ChBits(x[2], y[2], z[2], HalfBits)>>

Maj(x, y, z) ==
    <<MajBits(x[1], y[1], z[1], HalfBits), MajBits(x[2], y[2], z[2], HalfBits)>>

\* bits.RotateLeft32(x, -n), for 0 <= n < 32
Rotr(x, n) ==
    LET k == n % HalfBits
        u == IF n < HalfBits THEN x ELSE <<x[2], x[1]>>
    IN  <<(u[1] \div (2 ^ k)) + (u[2] % (2 ^ k)) * (2 ^ (HalfBits - k)),
          (u[2] \div (2 ^ k)) + (u[1] % (2 ^ k)) * (2 ^ (HalfBits - k))>>

\* x >> n, for 0 <= n < 16
Shr(x, n) ==
    <<x[1] \div (2 ^ n),
      (x[2] \div (2 ^ n)) + (x[1] % (2 ^ n)) * (2 ^ (HalfBits - n))>>

\* x + y of uint32: the sum modulo 2^32.
Add(x, y) ==
    <<(x[1] + y[1] + ((x[2] + y[2]) \div Half)) % Half, (x[2] + y[2]) % Half>>

\* The word of four bytes, most significant first, and back.
WordOf(b1, b2, b3, b4) == <<b1 * 256 + b2, b3 * 256 + b4>>
WordBytes(x) == <<x[1] \div 256, x[1] % 256, x[2] \div 256, x[2] % 256>>

BigSigma0(x) == Xor3(Rotr(x, 2), Rotr(x, 13), Rotr(x, 22))
BigSigma1(x) == Xor3(Rotr(x, 6), Rotr(x, 11), Rotr(x, 25))
SmallSigma0(x) == Xor3(Rotr(x, 7), Rotr(x, 18), Shr(x, 3))
SmallSigma1(x) == Xor3(Rotr(x, 17), Rotr(x, 19), Shr(x, 10))

\* The round constants _K and the initial state init0 .. init7, each as
\* its high and low 16 bits.
RoundK ==
    << <<17034, 12184>>, <<28983, 17553>>, <<46528, 64463>>, <<59829, 56229>>,
       <<14678, 49755>>, <<23025, 4593>>, <<37439, 33444>>, <<43804, 24277>>,
       <<55303, 43672>>, <<4739, 23297>>, <<9265, 34238>>, <<21772, 32195>>,
       <<29374, 23924>>, <<32990, 45566>>, <<39900, 1703>>, <<49563, 61812>>,
       <<58523, 27073>>, <<61374, 18310>>, <<4033, 40390>>, <<9228, 41420>>,
       <<11753, 11375>>, <<19060, 33962>>, <<23728, 43484>>, <<30457, 35034>>,
       <<38974, 20818>>, <<43057, 50797>>, <<45059, 10184>>, <<48985, 32711>>,
       <<50912, 3059>>, <<54695, 37191>>, <<1738, 25425>>, <<5161, 10599>>,
       <<10167, 2693>>, <<11803, 8504>>, <<19756, 28156>>, <<21304, 3347>>,
       <<25866, 29524>>, <<30314, 2747>>, <<33218, 51502>>, <<37490, 11397>>,
       <<41663, 59553>>, <<43034, 26187>>, <<49739, 35696>>, <<51052, 20899>>,
       <<53650, 59417>>, <<54937, 1572>>, <<62478, 13701>>, <<4202, 41072>>,
       <<6564, 49430>>, <<7735, 27656>>, <<10056, 30540>>, <<13488, 48309>>,
       <<14620, 3251>>, <<20184, 43594>>, <<23452, 51791>>, <<26670, 28659>>,
       <<29839, 33518>>, <<30885, 25455>>, <<33992, 30740>>, <<36039, 520>>,
       <<37054, 65530>>, <<42064, 27883>>, <<48889, 41975>>, <<50801, 30962>> >>

InitState ==
    << <<27145, 58983>>, <<47975, 44677>>, <<15470, 62322>>, <<42319, 62778>>,
       <<20750, 21119>>, <<39685, 26764>>, <<8067, 55723>>, <<23520, 52505>> >>

\* sha256.BlockSize
BlockSize == 64

\* The words p[0:4], p[4:8], ... of a 64-byte block p, and the next word of
\* the message schedule w.
BlockWords(p) ==
    <<WordOf(p[1], p[2], p[3], p[4]), WordOf(p[5], p[6], p[7], p[8]),
      WordOf(p[9], p[10], p[11], p[12]), WordOf(p[13], p[14], p[15], p[16]),
      WordOf(p[17], p[18], p[19], p[20]), WordOf(p[21], p[22], p[23], p[24]),
      WordOf(p[25], p[26], p[27], p[28]), WordOf(p[29], p[30], p[31], p[32]),
      WordOf(p[33], p[34], p[35], p[36]), WordOf(p[37], p[38], p[39], p[40]),
      WordOf(p[41], p[42], p[43], p[44]), WordOf(p[45], p[46], p[47], p[48]),
      WordOf(p[49], p[50], p[51], p[52]), WordOf(p[53], p[54], p[55], p[56]),
      WordOf(p[57], p[58], p[59], p[60]), WordOf(p[61], p[62], p[63], p[64])>>

NextWord(w) ==
    LET t == Len(w) + 1
    IN  Add(Add(SmallSigma1(w[t - 2]), w[t - 7]),
            Add(SmallSigma0(w[t - 15]), w[t - 16]))

\* The message schedule w with its next n words (n >= 1), halving n; the
\* first half is computed once and named m.
RECURSIVE Schedule(_, _)
Schedule(w, n) ==
    IF n = 1 THEN Append(w, NextWord(w))
    ELSE CHOOSE r \in {Schedule(m, n - (n \div 2)) : m \in {Schedule(w, n \div 2)}} : TRUE

\* Round t over the working variables s = <<a, b, c, d, e, f, g, h>>.
Round(s, w, t) ==
    LET t1 == Add(Add(Add(s[8], BigSigma1(s[5])), Ch(s[5], s[6], s[7])),
                  Add(RoundK[t], w[t]))
        t2 == Add(BigSigma0(s[1]), Maj(s[1], s[2], s[3]))
    IN  <<Add(t1, t2), s[1], s[2], s[3], Add(s[4], t1), s[5], s[6], s[7]>>

\* The n rounds from round t on (n >= 1), halving n; the state after the
\* first half is computed once and named m.
RECURSIVE Rounds(_, _, _, _)
Rounds(s, w, t, n) ==
    IF n = 1 THEN Round(s, w, t)
    ELSE CHOOSE r \in {Rounds(m, w, t + (n \div 2), n - (n \div 2)) :
                        m \in {Rounds(s, w, t, n \div 2)}} : TRUE

\* block(dig, p) for one 64-byte block p: the state after it.
Block(st, p) ==
    CHOOSE st1 \in
        { <<Add(st[1], s[1]), Add(st[2], s[2]), Add(st[3], s[3]), Add(st[4], s[4]),
            Add(st[5], s[5]), Add(st[6], s[6]), Add(st[7], s[7]), Add(st[8], s[8])>> :
          s \in {Rounds(st, w, 1, 64) : w \in {Schedule(BlockWords(p), 48)}} } : TRUE

\* sha256.New(): the running state, the bytes of the block begun and the
\* number of bytes written.
NewHasher == [state |-> InitState, x |-> <<>>, len |-> 0]

\* The state after the whole blocks of buf, and the bytes of buf left over;
\* the state after the first block is computed once and named st1.
RECURSIVE Blocks(_, _)
Blocks(st, buf) ==
    IF Len(buf) < BlockSize THEN [state |-> st, x |-> buf]
    ELSE CHOOSE b \in {Blocks(st1, Drop(buf, BlockSize)) :
                        st1 \in {Block(st, Take(buf, BlockSize))}} : TRUE

\* (*digest).Write(p): it never fails.
HasherWrite(d, p) ==
    CHOOSE d1 \in {[state |-> b.state, x |-> b.x, len |-> d.len + Len(p)] :
                    b \in {Blocks(d.state, d.x \o p)}} : TRUE

\* The big-endian bytes of the number v, n of them.
RECURSIVE BigEndian(_, _)
BigEndian(v, n) ==
    IF n = 0 THEN <<>> ELSE Append(BigEndian(v \div 256, n - 1), v % 256)

\* The 32 bytes of the state st.
StateBytes(st) ==
    WordBytes(st[1]) \o WordBytes(st[2]) \o WordBytes(st[3]) \o WordBytes(st[4])
    \o WordBytes(st[5]) \o WordBytes(st[6]) \o WordBytes(st[7]) \o WordBytes(st[8])

\* (*digest).Sum(nil): the digest of what was written, 32 bytes: the
\* padding 0x80, zeros up to 56 mod 64 and the length in bits are written to
\* a copy of the hasher.
HasherSum(d) ==
    LET zeros == (55 - d.len) % BlockSize
        pad   == <<128>> \o Repeat(0, zeros) \o BigEndian(d.len * 8, 8)
    IN  CHOOSE sum \in {StateBytes(fin.state) : fin \in {HasherWrite(d, pad)}} : TRUE

\* hex.EncodeToString(src): two digits of "0123456789abcdef" for each byte.
EncodeToString(src) ==
    [i \in 1..(2 * Len(src)) |->
        IF i % 2 = 1 THEN HexDigits[(src[(i + 1) \div 2] \div 16) + 1]
        ELSE HexDigits[(src[i \div 2] % 16) + 1]]

(***************************************************************************)
(* The inputs the calls are made with.                                     *)
(***************************************************************************)

\* How far the length of a hex part may be from Sha256HexLen.
Slack == 1

\* How many chunks a stream delivers at most before it ends.
MaxChunks == 2

Colon == Str(<<":">>)

Sha256Name == Str(<<"s", "h", "a", "2", "5", "6">>)

\* The algorithm parts: the supported name, two other names, the empty name.
AlgNames == {Sha256Name, Str(<<"m", "d", "5">>), Str(<<"S", "H", "A", "2", "5", "6">>), <<>>}

\* What is put into a run of the hex digit "a": nothing, another hex digit,
\* characters outside 0-9a-f (an uppercase hex letter, a letter after f, a
\* space, the two-byte character U+00E9, a byte that is no UTF-8), a colon,
\* and pairs of different characters outside 0-9a-f.
Inserts ==
    { <<>>, Str(<<"0">>), Str(<<"A">>), Str(<<"g">>), Str(<<" ">>), <<195, 169>>,
      <<255>>, Colon, Str(<<"g", "A">>), Str(<<"A", "g">>), <<195, 169>> \o Str(<<"g">>),
      Str(<<"g", "0", "A">>) }

\* The lengths of the run of "a": none, and those that with an insertion of
\* one or no byte are at most Slack from Sha256HexLen.
FillLens == {0} \cup ((Sha256HexLen - Slack - 1) .. (Sha256HexLen + Slack))

\* A run of n "a" with ins put in after the first pos of them.
HexPart(n, pos, ins) ==
    Repeat(Ord("a"), pos) \o ins \o Repeat(Ord("a"), n - pos)

HexParts ==
    {HexPart(n, pos, ins) : n \in FillLens, pos \in {0, 1}, ins \in Inserts}
    \cup {HexPart(n, n, ins) : n \in FillLens, ins \in Inserts}
    \cup {HexPart(n, n \div 2, ins) : n \in FillLens, ins \in Inserts}

\* The texts given to NewHash: an algorithm part, a colon and a hex part;
\* and texts with no colon at all.
Texts ==
    {alg \o Colon \o x : alg \in AlgNames, x \in HexParts}
    \cup {alg \o Repeat(Ord("a"), n) : alg \in AlgNames, n \in FillLens}

\* The digests of a^64 and of 0a^63: two texts NewHash accepts.
TextA == Sha256Name \o Colon \o HexPart(Sha256HexLen, 0, <<>>)
TextB == Sha256Name \o Colon \o HexPart(Sha256HexLen - 1, 0, Str(<<"0">>))

\* The bodies put between quotes: texts NewHash accepts or rejects, and
\* bodies with the escape sequences of a Go literal.
JsonBodies ==
    { TextA, TextB,
      Sha256Name \o Colon \o HexPart(Sha256HexLen - 1, 0, <<>>),
      Sha256Name \o Colon \o HexPart(Sha256HexLen - 1, 1, Str(<<"g">>)),
      Str(<<"m", "d", "5">>) \o Colon \o HexPart(Sha256HexLen, 0, <<>>),
      Sha256Name \o HexPart(Sha256HexLen, 0, <<>>),
      Sha256Name \o Colon \o Str(<<"\\", "x", "6", "1">>) \o HexPart(Sha256HexLen - 1, 0, <<>>),
      Sha256Name \o Colon \o Str(<<"\\", "u", "0", "0", "6", "1">>) \o HexPart(Sha256HexLen - 1, 0, <<>>),
      Sha256Name \o Colon \o Str(<<"\\", "1", "4", "1">>) \o HexPart(Sha256HexLen - 1, 0, <<>>),
      Sha256Name \o Colon \o HexPart(Sha256HexLen, 0, <<>>) \o Str(<<"\\">>),
      Sha256Name \o Colon \o Str(<<"\\", "\"">>) \o HexPart(Sha256HexLen - 1, 0, <<>>),
      Sha256Name \o Colon \o <<DoubleQuote>> \o HexPart(Sha256HexLen - 1, 0, <<>>),
      Sha256Name \o Colon \o <<CarriageReturn>> \o HexPart(Sha256HexLen, 0, <<>>),
      Sha256Name \o Colon \o HexPart(Sha256HexLen, Sha256HexLen, <<255>>),
      Colon, <<>> }

\* The delimiters put around a body: a pair of double quotes, of backquotes,
\* of single quotes, nothing, and pairs that do not match.
Delimiters ==
    { <<<<DoubleQuote>>, <<DoubleQuote>>>>, <<<<Backquote>>, <<Backquote>>>>,
      <<<<SingleQuote>>, <<SingleQuote>>>>, <<<<>>, <<>>>>,
      <<<<DoubleQuote>>, <<>>>>, <<<<DoubleQuote>>, <<SingleQuote>>>>,
      <<<<>>, <<DoubleQuote>>>> }

\* The data given to UnmarshalJSON.
JsonInputs == {d[1] \o b \o d[2] : d \in Delimiters, b \in JsonBodies}

\* The few texts and data the calls of a longer run are made with.
SomeTexts ==
    { TextA,
      Sha256Name \o Colon \o HexPart(Sha256HexLen - 1, 0, <<>>),
      Sha256Name \o Colon \o HexPart(Sha256HexLen - 1, 1, Str(<<"g">>)),
      Str(<<"m", "d", "5">>) \o Colon \o HexPart(Sha256HexLen, 0, <<>>),
      Sha256Name \o HexPart(Sha256HexLen, 0, <<>>) }

SomeJson ==
    {<<DoubleQuote>> \o t \o <<DoubleQuote>> : t \in SomeTexts \cup {TextB}}
    \cup {<<Backquote>> \o TextB \o <<Backquote>>, TextB}

\* The streams given to SHA256: the chunks the reads deliver, and whether
\* the read after them fails (fail) or reports the end of the stream.
Chunks == {Str(<<"a", "b", "c">>), Repeat(Ord("a"), BlockSize)}

RECURSIVE ChunkSeqs(_)
ChunkSeqs(k) ==
    IF k = 0 THEN {<<>>}
    ELSE ChunkSeqs(k - 1) \cup {Append(cs, c) : cs \in ChunkSeqs(k - 1), c \in Chunks}

Streams == [chunks : ChunkSeqs(MaxChunks), fail : BOOLEAN]

(***************************************************************************)
(* The state.                                                              *)
(***************************************************************************)
VARIABLES
    input,   \* the text or data drawn for the calls of SpecInputs
    hs,      \* the caller's Hash variables, by name
    ret,     \* what the last call returned (nothing while a call is running)
    pc,      \* "idle", or "copy" while SHA256 is inside io.Copy
    r,       \* the stream of the SHA256 call: what it has yet to deliver,
             \* and how often Close was called on it
    hasher,  \* the sha256 hasher of the running SHA256 call
    n        \* the bytes its io.Copy has written to the hasher

vars == <<input, hs, ret, pc, r, hasher, n>>

\* Two variables of type Hash: "var h, g Hash".
HashVars == {"h", "g"}

NoStream == [chunks |-> <<>>, fail |-> FALSE, closed |-> 0]

\* What a call returned: its name, its receiver, its argument, the variable
\* whose MarshalJSON output the argument is (if it is), and the results:
\* a Hash, a string or bytes, a count, an error.
Returned(op, recv, arg, src, hash, data, count, err) ==
    [op |-> op, recv |-> recv, arg |-> arg, src |-> src, hash |-> hash,
     data |-> data, n |-> count, err |-> err]

NothingReturned == Returned("none", "", <<>>, "", ZeroHash, <<>>, 0, NoError)

InitCommon ==
    /\ hs = [v \in HashVars |-> ZeroHash]
    /\ ret = NothingReturned
    /\ pc = "idle"
    /\ r = NoStream
    /\ hasher = NewHasher
    /\ n = 0

Init == input = <<>> /\ InitCommon

(***************************************************************************)
(* The calls.                                                              *)
(***************************************************************************)

\* h, err := NewHash(s)
NewHash(s) ==
    /\ pc = "idle"
    /\ \E res \in {NewHashOf(s)} :
         ret' = Returned("NewHash", "", s, "", res.hash, <<>>, 0, res.err)
    /\ UNCHANGED <<input, hs, pc, r, hasher, n>>

\* v.Algorithm()
CallAlgorithm(v) ==
    /\ pc = "idle"
    /\ ret' = Returned("Algorithm", v, <<>>, "", ZeroHash, Algorithm(hs[v]), 0, NoError)
    /\ UNCHANGED <<input, hs, pc, r, hasher, n>>

\* v.Hex()
CallHex(v) ==
    /\ pc = "idle"
    /\ ret' = Returned("Hex", v, <<>>, "", ZeroHash, Hex(hs[v]), 0, NoError)
    /\ UNCHANGED <<input, hs, pc, r, hasher, n>>

\* v.String()
CallString(v) ==
    /\ pc = "idle"
    /\ ret' = Returned("String", v, <<>>, "", ZeroHash, String(hs[v]), 0, NoError)
    /\ UNCHANGED <<input, hs, pc, r, hasher, n>>

\* v.MarshalJSON()
MarshalJSON(v) ==
    /\ pc = "idle"
    /\ \E res \in {MarshalJSONOf(hs[v])} :
         ret' = Returned("MarshalJSON", v, <<>>, "", ZeroHash, res.data, 0, res.err)
    /\ UNCHANGED <<input, hs, pc, r, hasher, n>>

\* v.UnmarshalJSON(data), data being the bytes MarshalJSON of src returned
\* (src a variable) or bytes from elsewhere (src = "").
UnmarshalJSON(v, data, src) ==
    /\ pc = "idle"
    /\ \E res \in {UnmarshalJSONOf(hs[v], data)} :
         /\ hs' = [hs EXCEPT ![v] = res.h]
         /\ ret' = Returned("UnmarshalJSON", v, data, src, ZeroHash, <<>>, 0, res.err)
    /\ UNCHANGED <<input, pc, r, hasher, n>>

\* SHA256(stream) up to io.Copy: defer r.Close() and sha256.New().
SHA256Call(stream) ==
    /\ pc = "idle"
    /\ pc' = "copy"
    /\ r' = [chunks |-> stream.chunks, fail |-> stream.fail, closed |-> 0]
    /\ hasher' = NewHasher
    /\ n' = 0
    /\ ret' = NothingReturned
    /\ UNCHANGED <<input, hs>>

\* io.Copy: a Read that delivers bytes, and their Write to the hasher.
CopyChunk ==
    /\ pc = "copy"
    /\ r.chunks # <<>>
    /\ hasher' = HasherWrite(hasher, Head(r.chunks))
    /\ n' = n + Len(Head(r.chunks))
    /\ r' = [r EXCEPT !.chunks = Tail(r.chunks)]
    /\ UNCHANGED <<input, hs, ret, pc>>

\* The error a failing Read returns.
ReadError == Errorf("read failed", <<>>)

\* The deferred r.Close().
Close(s) == [s EXCEPT !.closed = s.closed + 1]

\* io.Copy reaches the end of the stream; SHA256 returns the Hash and the
\* count, and its deferred Close runs.
SHA256Return ==
    /\ pc = "copy"
    /\ r.chunks = <<>>
    /\ ~r.fail
    /\ ret' = Returned("SHA256", "", <<>>, "",
                       Hash(Sha256Name, EncodeToString(HasherSum(hasher))), <<>>, n, NoError)
    /\ r' = Close(r)
    /\ pc' = "idle"
    /\ hasher' = NewHasher
    /\ n' = 0
    /\ UNCHANGED <<input, hs>>

\* SHA256 closing the stream on the path of success only: on a failing Read
\* it returns without Close.
SHA256FailNoClose ==
    /\ pc = "copy"
    /\ r.chunks = <<>>
    /\ r.fail
    /\ ret' = Returned("SHA256", "", <<>>, "", ZeroHash, <<>>, 0, ReadError)
    /\ pc' = "idle"
    /\ hasher' = NewHasher
    /\ n' = 0
    /\ UNCHANGED <<input, hs, r>>

\* A Read fails; io.Copy returns its error, SHA256 returns Hash{}, 0 and the
\* error, and its deferred Close runs.
SHA256Fail ==
    /\ pc = "copy"
    /\ r.chunks = <<>>
    /\ r.fail
    /\ ret' = Returned("SHA256", "", <<>>, "", ZeroHash, <<>>, 0, ReadError)
    /\ r' = Close(r)
    /\ pc' = "idle"
    /\ hasher' = NewHasher
    /\ n' = 0
    /\ UNCHANGED <<input, hs>>

Next ==
    \/ \E s \in SomeTexts : NewHash(s)
    \/ \E v \in HashVars : CallAlgorithm(v)
    \/ \E v \in HashVars : CallHex(v)
    \/ \E v \in HashVars : CallString(v)
    \/ \E v \in HashVars : MarshalJSON(v)
    \/ \E v \in HashVars, data \in SomeJson : UnmarshalJSON(v, data, "")
    \/ \E v \in HashVars : ret.op = "MarshalJSON" /\ UnmarshalJSON(v, ret.data, ret.recv)
    \/ \E stream \in Streams : SHA256Call(stream)
    \/ CopyChunk
    \/ SHA256Return
    \/ SHA256Fail

Spec == Init /\ [][Next]_vars

(***************************************************************************)
(* One call on one input: the input is drawn at the start, and NewHash or  *)
(* UnmarshalJSON (on the zero variable h) is applied to it; String and     *)
(* MarshalJSON may follow.                                                 *)
(***************************************************************************)
InitInputs == input \in (Texts \cup JsonInputs) /\ InitCommon

NextInputs ==
    \/ ret.op = "none" /\ NewHash(input)
    \/ ret.op = "none" /\ UnmarshalJSON("h", input, "")
    \/ ret.op = "UnmarshalJSON" /\ CallString("h")
    \/ ret.op = "UnmarshalJSON" /\ MarshalJSON("h")

SpecInputs == InitInputs /\ [][NextInputs]_vars

(***************************************************************************)
(* The vocabulary of the properties.                                       *)
(***************************************************************************)

\* The characters 0-9 and a-f.
LowerHex == (48 .. 57) \cup (97 .. 102)

IsLowerHex(x) == \A i \in DOMAIN x : x[i] \in LowerHex

\* A Hash with algorithm "sha256" and a hex of 64 characters of 0-9a-f.
ValidHash(x) ==
    /\ x.algorithm = Sha256Name
    /\ Len(x.hex) = 64
    /\ IsLowerHex(x.hex)

\* The number of colons of s, and the parts before and after the first.
ColonCount(s) == Cardinality({i \in DOMAIN s : s[i] = 58})
BeforeColon(s) == Take(s, IndexByte(s, 58))
AfterColon(s) == Drop(s, IndexByte(s, 58) + 1)

\* The kinds of error of the specification.
ErrorKind(err) ==
    IF err = NoError THEN "none"
    ELSE IF err.format \in {"too many parts in hash: %s",
                            "found non-hex character in hash: %c",
                            "wrong number of hex digits for sha256: %s"}
    THEN "InvalidFormat"
    ELSE IF err.format = "unsupported hash type: %s" THEN "UnsupportedAlgorithm"
    ELSE IF err = ErrSyntax THEN "MalformedJSON"
    ELSE IF err = ReadError THEN "IOFailure"
    ELSE "other"

\* The Hash values of the state: the variables, and the Hash the last call
\* returned if it returns one.
Instances ==
    {hs[v] : v \in HashVars} \cup (IF ret.op \in {"NewHash", "SHA256"} THEN {ret.hash} ELSE {})

\* s has exactly one colon, so that it splits into two parts.
TwoParts(s) == ColonCount(s) = 1

\* The character (a UTF-8 sequence) at the first byte of x outside 0-9a-f.
FirstNonHexChar(x) ==
    LET rest == Drop(x, PrefixLen(x, LowerHex))
    IN  Take(rest, DecodeRune(rest).size)

\* data starts and ends with a double quote.
DoubleQuoted(data) ==
    Len(data) >= 2 /\ data[1] = 34 /\ data[Len(data)] = 34

(***************************************************************************)
(* Properties of one call on one input (SpecInputs).                       *)
(***************************************************************************)

\* C1: for every h of exactly 64 characters of 0-9a-f, NewHash("sha256:" + h)
\* succeeds, the Hash returned has Algorithm() = "sha256" and Hex() = h, and
\* String() on it returns exactly "sha256:" + h.
C1_TextRoundTrip ==
    ( /\ ret.op = "NewHash"
      /\ Len(ret.arg) = 7 + 64
      /\ Take(ret.arg, 7) = Str(<<"s", "h", "a", "2", "5", "6", ":">>)
      /\ IsLowerHex(Drop(ret.arg, 7)) )
    => /\ ret.err = NoError
       /\ Algorithm(ret.hash) = Str(<<"s", "h", "a", "2", "5", "6">>)
       /\ Hex(ret.hash) = Drop(ret.arg, 7)
       /\ String(ret.hash) = ret.arg

\* NewHash has returned a Hash for "sha256:" and 64 hex digits that are not
\* all the same.
C1_Witness ==
    /\ ret.op = "NewHash"
    /\ ret.arg = TextB
    /\ ret.err = NoError
    /\ ret.hash = Hash(Sha256Name, Drop(TextB, 7))

\* C5, as stated: a two-part string whose algorithm part is not "sha256"
\* fails with the error "unsupported hash type", whatever its hex part is.
C5_AlwaysUnsupported ==
    ( /\ ret.op = "NewHash"
      /\ TwoParts(ret.arg)
      /\ BeforeColon(ret.arg) # Sha256Name )
    => ErrorKind(ret.err) = "UnsupportedAlgorithm"

\* C5, amended: a two-part string whose algorithm part is not "sha256"
\* always fails; the error is "unsupported hash type" (naming the algorithm
\* part) exactly when the hex part has only characters of 0-9a-f, whatever
\* its length, and is "found non-hex character" when it has another one.
C5_UnsupportedWhenHex ==
    ( /\ ret.op = "NewHash"
      /\ TwoParts(ret.arg)
      /\ BeforeColon(ret.arg) # Sha256Name )
    => /\ ret.err # NoError
       /\ ret.hash = ZeroHash
       /\ IsLowerHex(AfterColon(ret.arg))
            => ret.err = Errorf("unsupported hash type: %s", BeforeColon(ret.arg))
       /\ ~IsLowerHex(AfterColon(ret.arg))
            => ret.err.format = "found non-hex character in hash: %c"

\* NewHash has rejected "md5:" and a hex part with a character outside
\* 0-9a-f, and the error is not the one of the algorithm.
C5_Witness ==
    /\ ret.op = "NewHash"
    /\ TwoParts(ret.arg)
    /\ BeforeColon(ret.arg) = Str(<<"m", "d", "5">>)
    /\ ~IsLowerHex(AfterColon(ret.arg))
    /\ ErrorKind(ret.err) = "InvalidFormat"

\* C7: for every data that is no double-quoted JSON string (unquoted text,
\* text in backquotes or in single quotes), UnmarshalJSON fails with
\* MalformedJSON and never reaches the parsing of the text.
C7_OnlyDoubleQuoted ==
    ( /\ ret.op = "UnmarshalJSON"
      /\ ~DoubleQuoted(ret.arg) )
    => /\ ErrorKind(ret.err) = "MalformedJSON"
       /\ hs[ret.recv] = ZeroHash

\* C8: NewHash(s) succeeds if and only if s splits on ":" into exactly two
\* parts, the first is "sha256" and the second is exactly 64 characters of
\* 0-9a-f; with no colon or with two or more colons it fails with
\* InvalidFormat, and so does "sha256:" + h for hex h of a length other
\* than 64.
C8_SucceedsIff ==
    ret.op = "NewHash"
    => /\ ret.err = NoError
            <=> ( /\ TwoParts(ret.arg)
                  /\ BeforeColon(ret.arg) = Sha256Name
                  /\ Len(AfterColon(ret.arg)) = 64
                  /\ IsLowerHex(AfterColon(ret.arg)) )
       /\ ~TwoParts(ret.arg) => ErrorKind(ret.err) = "InvalidFormat"
       /\ ( /\ TwoParts(ret.arg)
            /\ BeforeColon(ret.arg) = Sha256Name
            /\ IsLowerHex(AfterColon(ret.arg))
            /\ Len(AfterColon(ret.arg)) # 64 )
          => ErrorKind(ret.err) = "InvalidFormat"

\* NewHash has rejected "sha256:" and 63 hex digits with InvalidFormat.
C8_Witness ==
    /\ ret.op = "NewHash"
    /\ TwoParts(ret.arg)
    /\ BeforeColon(ret.arg) = Sha256Name
    /\ IsLowerHex(AfterColon(ret.arg))
    /\ Len(AfterColon(ret.arg)) = 63
    /\ ErrorKind(ret.err) = "InvalidFormat"

\* C9: when the part after the colon has a character outside 0-9a-f, parsing
\* fails with InvalidFormat and the character the error reports is the first
\* character of the hex part that is outside 0-9a-f (the text is UTF-8).
C9_ReportsFirstNonHex ==
    ( /\ ret.op = "NewHash"
      /\ TwoParts(ret.arg)
      /\ ValidString(ret.arg)
      /\ ~IsLowerHex(AfterColon(ret.arg)) )
    => /\ ErrorKind(ret.err) = "InvalidFormat"
       /\ ret.err.arg = FirstNonHexChar(AfterColon(ret.arg))

(***************************************************************************)
(* Properties of the sequences of calls (Spec).                            *)
(***************************************************************************)

\* C2, as stated: after any sequence of NewHash, UnmarshalJSON and SHA256
\* calls, successful or failed, every Hash that exists has the algorithm
\* "sha256" and a hex of exactly 64 characters of 0123456789abcdef.
C2_EveryInstanceValid ==
    ret.op # "none" => \A x \in Instances : ValidHash(x)

\* C2, amended: every Hash that exists is either the zero Hash (empty
\* algorithm and empty hex: a variable not yet set, and what a failed NewHash
\* or SHA256 returns) or has the algorithm "sha256" and a hex of exactly 64
\* characters of 0123456789abcdef; the Hash a successful NewHash or SHA256
\* returns, and the receiver of a successful UnmarshalJSON, is of the
\* second sort.
C2_ZeroOrValid ==
    /\ \A x \in Instances : x = ZeroHash \/ ValidHash(x)
    /\ (ret.op \in {"NewHash", "SHA256"} /\ ret.err = NoError) => ValidHash(ret.hash)
    /\ (ret.op \in {"NewHash", "SHA256"} /\ ret.err # NoError) => ret.hash = ZeroHash
    /\ (ret.op = "UnmarshalJSON" /\ ret.err = NoError) => ValidHash(hs[ret.recv])

\* A failed NewHash has returned the zero Hash while one variable holds a
\* valid Hash and the other is still the zero Hash.
C2_Witness ==
    /\ ret.op = "NewHash"
    /\ ret.err # NoError
    /\ ret.hash = ZeroHash
    /\ ValidHash(hs["h"])
    /\ hs["g"] = ZeroHash

\* C3: SHA256(r) closes r exactly once on every path: it is not closed while
\* io.Copy runs, it has been closed once when the call returns the Hash and
\* the count at the end of the stream, once when it returns the error of a
\* failing Read, and it is never closed twice.
C3_ClosedExactlyOnce ==
    /\ pc = "copy" => r.closed = 0
    /\ ret.op = "SHA256" => r.closed = 1
    /\ (ret.op = "SHA256" /\ ret.err # NoError)
         => ret.err = ReadError /\ ret.hash = ZeroHash /\ ret.n = 0
    /\ (ret.op = "SHA256" /\ ret.err = NoError) => ValidHash(ret.hash)
    /\ r.closed <= 1

\* SHA256 has returned the error of a failing Read, with the stream closed
\* once.
C3_Witness ==
    /\ ret.op = "SHA256"
    /\ ret.err = ReadError
    /\ r.fail
    /\ r.chunks = <<>>
    /\ r.closed = 1

\* C4, as stated: no operation on a Hash that has been created (Algorithm,
\* Hex, String, MarshalJSON, UnmarshalJSON) changes its algorithm or hex.
C4_NeverChanges ==
    [][\A v \in HashVars : ValidHash(hs[v]) => hs'[v] = hs[v]]_vars

\* C4, amended: Algorithm, Hex, String and MarshalJSON never change the Hash
\* they are called on, and neither does an UnmarshalJSON that fails; an
\* UnmarshalJSON that succeeds sets its receiver, created before or not, to
\* the Hash whose canonical text the data holds between its quotes.
C4_ChangedOnlyByUnmarshal ==
    [][\A v \in HashVars :
         hs'[v] # hs[v]
         => /\ ret'.op = "UnmarshalJSON"
            /\ ret'.recv = v
            /\ ret'.err = NoError
            /\ ValidHash(hs'[v])
            /\ \E q \in {34, 96} : ret'.arg = <<q>> \o String(hs'[v]) \o <<q>>]_vars

\* MarshalJSON has been called on a valid Hash while the other variable
\* holds a different valid Hash.
C4_Witness ==
    /\ ret.op = "MarshalJSON"
    /\ ValidHash(hs[ret.recv])
    /\ \E v \in HashVars : ValidHash(hs[v]) /\ hs[v] # hs[ret.recv]

\* C6: for every valid Hash h, MarshalJSON returns the canonical text
\* algorithm:hex in double quotes, and UnmarshalJSON applied to those bytes
\* succeeds and yields a Hash with the algorithm and the hex of h.
C6_JsonRoundTrip ==
    /\ (ret.op = "MarshalJSON" /\ ValidHash(hs[ret.recv]))
         => /\ ret.err = NoError
            /\ ret.data = <<34>> \o hs[ret.recv].algorithm \o <<58>>
                            \o hs[ret.recv].hex \o <<34>>
    /\ (ret.op = "UnmarshalJSON" /\ ret.src \in HashVars /\ ValidHash(hs[ret.src]))
         => /\ ret.err = NoError
            /\ hs[ret.recv].algorithm = hs[ret.src].algorithm
            /\ hs[ret.recv].hex = hs[ret.src].hex

\* UnmarshalJSON on the variable g has read the bytes MarshalJSON returned
\* for the valid Hash of the variable h.
C6_Witness ==
    /\ ret.op = "UnmarshalJSON"
    /\ ret.src = "h"
    /\ ret.recv = "g"
    /\ ValidHash(hs["h"])
    /\ hs["g"] = hs["h"]
    /\ ret.err = NoError

\* C10: a failed operation leaves no partial result: when UnmarshalJSON
\* fails, the algorithm and the hex of its receiver are what they were
\* before the call; when NewHash fails it returns the zero Hash and the
\* error.
C10_NoPartialResult ==
    /\ []((ret.op = "NewHash" /\ ret.err # NoError) => ret.hash = ZeroHash)
    /\ [][(ret'.op = "UnmarshalJSON" /\ ret'.err # NoError) => hs' = hs]_vars

\* UnmarshalJSON has failed on a variable that holds a valid Hash.
C10_Witness ==
    /\ ret.op = "UnmarshalJSON"
    /\ ret.err # NoError
    /\ ValidHash(hs[ret.recv])
=============================================================================
